---- MODULE Spec2Model ----
(***************************************************************************)
(* A model of src/main.rs: the tree command.  main canonicalizes the path  *)
(* argument, collect_entries walks the directory and groups the entries by *)
(* parent in a HashMap, sorts every group, and print_tree prints the       *)
(* groups depth first with box-drawing prefixes, calling                   *)
(* get_responsibility for every entry that is not a directory.             *)
(*                                                                         *)
(* Strings are sequences of one-character strings, so that starts_with,    *)
(* to_lowercase, trim and the byte-wise string comparison are computed.    *)
(* A path is the sequence of its components; <<>> is the filesystem root   *)
(* "/", which has no parent.                                               *)
(***************************************************************************)
EXTENDS Integers, Sequences, FiniteSets, TLC

(***************************************************************************)
(* Bounds of the model.                                                    *)
(***************************************************************************)
\* entries below the target in a filesystem of the main specification
MaxEntries == 3
\* lines of a file given to get_responsibility in SpecResp
MaxLines == 2
\* characters of one such line
MaxLineLen == 3

(***************************************************************************)
(* Characters and strings.                                                 *)
(***************************************************************************)
\* the code point of a character (what str::cmp compares byte by byte)
Ord(c) ==
    CASE c = " " -> 32
      [] c = "#" -> 35
      [] c = "." -> 46
      [] c = "/" -> 47
      [] c = "A" -> 65
      [] c = "B" -> 66
      [] c = "a" -> 97
      [] c = "b" -> 98
      [] c = "h" -> 104
      [] c = "x" -> 120
      [] OTHER -> 255

\* char::to_lowercase on the alphabet of the model
ToLowerChar(c) ==
    CASE c = "A" -> "a"
      [] c = "B" -> "b"
      [] OTHER -> c

\* str::to_lowercase
to_lowercase(s) == [i \in 1..Len(s) |-> ToLowerChar(s[i])]

\* Ordering::reverse
CmpReverse(o) ==
    CASE o = "Less" -> "Greater"
      [] o = "Greater" -> "Less"
      [] OTHER -> "Equal"

\* Ordering::then_with
CmpThen(o, p) == IF o = "Equal" THEN p ELSE o

\* bool::cmp: false < true
CmpBool(x, y) ==
    IF x = y THEN "Equal" ELSE IF y THEN "Less" ELSE "Greater"

\* str::cmp: lexicographic on the code points, a proper prefix is Less
RECURSIVE CmpStr(_, _)
CmpStr(s, t) ==
    IF s = <<>> /\ t = <<>> THEN "Equal"
    ELSE IF s = <<>> THEN "Less"
    ELSE IF t = <<>> THEN "Greater"
    ELSE IF Ord(Head(s)) < Ord(Head(t)) THEN "Less"
    ELSE IF Ord(Head(s)) > Ord(Head(t)) THEN "Greater"
    ELSE CmpStr(Tail(s), Tail(t))

\* str::starts_with
starts_with(s, p) == Len(s) >= Len(p) /\ SubSeq(s, 1, Len(p)) = p

(***************************************************************************)
(* Paths and the filesystem.                                               *)
(***************************************************************************)
\* the file names of the model: a hidden one, two that differ only in
\* case, and one that sorts differently with and without case
Names == { <<".", "h">>, <<"a">>, <<"A">>, <<"B">> }

\* Path::parent is None exactly for the filesystem root
HasParent(p) == p # <<>>

\* Path::parent, where it is Some
parent(p) == SubSeq(p, 1, Len(p) - 1)

\* DirEntry::file_name: the last component, the whole path for "/"
file_name(p) == IF p = <<>> THEN <<"/">> ELSE p[Len(p)]

\* what an entry is: a directory, an unreadable directory (read_dir on it
\* fails), a regular file, or a symbolic link to a directory
Kinds == {"dir", "udir", "file", "symdir"}

\* the targets main can be given: "/", a directory with an ordinary name,
\* a directory with a hidden name
RootPaths == { <<>>, << <<"a">> >>, << <<".", "h">> >> }

\* the directories of filesystem f whose listing can be read
ReadableDirs(f) == {p \in DOMAIN f : f[p] = "dir"}

\* the entries directly inside d
ChildrenOf(f, d) ==
    {p \in DOMAIN f : Len(p) = Len(d) + 1 /\ SubSeq(p, 1, Len(d)) = d}

\* the places where filesystem f can get one more entry
NewEntries(f) ==
    {q \in {d \o <<n>> : d \in ReadableDirs(f), n \in Names} : q \notin DOMAIN f}

\* the filesystems obtained from those of T by adding one entry
Extended(T) ==
    UNION {{f @@ (p :> kd) : p \in NewEntries(f), kd \in Kinds} : f \in T}

\* the filesystems obtained from those of T by adding up to k entries
RECURSIVE Grow(_, _)
Grow(T, k) ==
    IF k = 0 THEN T
    ELSE LET more == Grow(T, k - 1) IN more \cup Extended(more)

\* the trees of fewer than MaxEntries entries, as paths below their top <<>>
SmallerTrees == Grow({(<<>> :> "dir")}, MaxEntries - 1)

\* the trees of at most MaxEntries entries that hold tree s
TreesFrom(s) == {s} \cup Extended({s})

\* tree t with its top placed at path r
PlacedAt(t, r) ==
    [p \in {r \o q : q \in DOMAIN t} |-> t[SubSeq(p, Len(r) + 1, Len(p))]]

\* the filesystems of the model, for the path argument r and a tree t: the
\* empty one (r does not exist), r an unreadable directory or a regular file
\* (but "/" is a directory), and r a directory that holds t
FileSystems(t, r) ==
    {<<>>} \cup {(r :> k) : k \in (IF r = <<>> THEN {} ELSE {"udir", "file"})}
           \cup {PlacedAt(t, r)}

(***************************************************************************)
(* get_responsibility (lines 136-155).  A file is whether File::open       *)
(* succeeds and the lines BufRead::lines yields; a line that holds a byte  *)
(* that is not valid UTF-8 is yielded as Err.                              *)
(***************************************************************************)
\* a byte that is not valid UTF-8
InvalidByte == "<FF>"

\* the characters of the lines of a file
LineChars == {" ", "/", "#", "x", InvalidByte}

\* char::is_whitespace on the alphabet of the model
is_whitespace(c) == c = " "

\* the lines of at most n characters
RECURSIVE LinesUpTo(_)
LinesUpTo(n) ==
    IF n = 0 THEN {<<>>}
    ELSE LinesUpTo(n - 1) \cup {Append(l, c) : l \in {m \in LinesUpTo(n - 1) : Len(m) = n - 1}, c \in LineChars}

\* the sequences of at most n lines
RECURSIVE TextsUpTo(_)
TextsUpTo(n) ==
    IF n = 0 THEN {<<>>}
    ELSE TextsUpTo(n - 1) \cup {Append(t, l) : t \in {u \in TextsUpTo(n - 1) : Len(u) = n - 1}, l \in LinesUpTo(MaxLineLen)}

\* the files get_responsibility is checked on: one that cannot be opened,
\* and every text of at most n lines
Files(n) ==
    {[open |-> FALSE, lines |-> <<>>]} \cup [open : {TRUE}, lines : TextsUpTo(n)]

\* whether the item BufRead::lines yields for the line is Ok (line 140)
LineIsOk(l) == \A i \in 1..Len(l) : l[i] # InvalidByte

\* str::trim_start_matches(|c| c.is_whitespace() || c == '/' || c == '#')
RECURSIVE trim_start_matches(_)
trim_start_matches(s) ==
    IF s # <<>> /\ (is_whitespace(Head(s)) \/ Head(s) = "/" \/ Head(s) = "#")
    THEN trim_start_matches(Tail(s))
    ELSE s

\* str::trim_start
RECURSIVE trim_start(_)
trim_start(s) ==
    IF s # <<>> /\ is_whitespace(Head(s)) THEN trim_start(Tail(s)) ELSE s

\* str::trim_end
RECURSIVE trim_end(_)
trim_end(s) ==
    IF s # <<>> /\ is_whitespace(s[Len(s)])
    THEN trim_end(SubSeq(s, 1, Len(s) - 1))
    ELSE s

\* str::trim (line 141)
trim(s) == trim_end(trim_start(s))

\* the fallback string of line 154, as a string of the model
NoResponsibility == <<"No responsibility comment">>

\* the for loop of lines 139-152, from line i of the file on
RECURSIVE ScanLines(_, _)
ScanLines(ls, i) ==
    IF i > Len(ls) THEN NoResponsibility
    ELSE IF ~LineIsOk(ls[i]) THEN ScanLines(ls, i + 1)
    ELSE LET trimmed_line == trim(ls[i])
         IN IF trimmed_line = <<>> THEN ScanLines(ls, i + 1)
            ELSE IF starts_with(trimmed_line, <<"/", "/">>) \/ starts_with(trimmed_line, <<"#">>)
                 THEN trim_start_matches(trimmed_line)
                 ELSE NoResponsibility

\* get_responsibility
get_responsibility(f) ==
    IF f.open THEN ScanLines(f.lines, 1) ELSE NoResponsibility

\* the content of the files of the main specification, by file name: a
\* comment, a file that cannot be opened, a blank line and then no comment
FileAt(p) ==
    CASE file_name(p) = <<"a">> -> [open |-> TRUE, lines |-> << <<"/", "/", " ", "x">> >>]
      [] file_name(p) = <<"A">> -> [open |-> FALSE, lines |-> <<>>]
      [] file_name(p) = <<"B">> -> [open |-> TRUE, lines |-> << <<" ">>, <<"x", " ", "#">> >>]
      [] OTHER -> [open |-> TRUE, lines |-> << <<"#", "x">> >>]

(***************************************************************************)
(* The ordering of collect_entries (lines 79-89) and the sort.             *)
(***************************************************************************)
\* DirEntry::file_type().is_dir(): the walk does not follow links, so a
\* link to a directory is not a directory here
file_type_is_dir(f, e) == f[e] \in {"dir", "udir"}

\* Path::is_dir (line 115): follows links
path_is_dir(f, e) == f[e] \in {"dir", "udir", "symdir"}

\* compare without the reverse() of line 83: files before directories
compare_no_reverse(f, a, b) ==
    CmpThen(CmpBool(file_type_is_dir(f, a), file_type_is_dir(f, b)),
            CmpStr(to_lowercase(file_name(a)), to_lowercase(file_name(b))))

\* the closure given to sort_by
compare(f, a, b) ==
    CmpThen(CmpReverse(CmpBool(file_type_is_dir(f, a), file_type_is_dir(f, b))),
            CmpStr(to_lowercase(file_name(a)), to_lowercase(file_name(b))))

\* one insertion of the stable sort: e goes after everything not greater
SortInsert(f, s, e) ==
    LET n == Cardinality({i \in 1..Len(s) : compare(f, s[i], e) # "Greater"})
    IN SubSeq(s, 1, n) \o <<e>> \o SubSeq(s, n + 1, Len(s))

\* slice::sort_by: a stable sort
RECURSIVE sort_by(_, _)
sort_by(f, s) ==
    IF s = <<>> THEN <<>>
    ELSE SortInsert(f, sort_by(f, SubSeq(s, 1, Len(s) - 1)), s[Len(s)])

\* is_hidden (lines 128-134)
is_hidden(e) == starts_with(file_name(e), <<".">>)

(***************************************************************************)
(* The state of one run of main.                                           *)
(***************************************************************************)
VARIABLES
    command,        \* cli.command: "tree" (None) or "completion"
    root,           \* the path argument, made absolute
    fs,             \* the filesystem: the kind of every entry at or below root
    pc,             \* where main is: "start", "collect", "walk", "print", "done"
    entries,        \* collect_entries' HashMap: directory path -> Vec of entries
    stack,          \* the walk: for every open directory, the entries not yet yielded
    frames,         \* the calls of print_tree in progress: path and loop index
    prefix,         \* print_tree's prefix: Vec<bool>
    out,            \* the lines printed to standard output
    script,         \* whether the completion script was written to standard output
    exit_code,      \* the exit status: -1 while running, 101 after a panic
    err,            \* whether something was written to standard error
    run,            \* which run of the tool this is
    first_out,      \* the lines the run before this one printed
    file,           \* the file given to get_responsibility on its own
    responsibility  \* what it returned

vars ==
    <<command, root, fs, pc, entries, stack, frames, prefix, out, script,
      exit_code, err, run, first_out, file, responsibility>>

\* the state of a run that has not started
Fresh ==
    /\ pc = "start"
    /\ entries = <<>>
    /\ stack = <<>>
    /\ frames = <<>>
    /\ prefix = <<>>
    /\ out = <<>>
    /\ script = FALSE
    /\ exit_code = -1
    /\ err = FALSE

\* no file is given to get_responsibility on its own
NoFile == [open |-> FALSE, lines |-> <<>>]

Init ==
    /\ root \in RootPaths
    /\ \E s \in SmallerTrees : \E t \in TreesFrom(s) : fs \in FileSystems(t, root)
    \* the completion mode resolves no path: one filesystem stands for all
    /\ command \in (IF fs = <<>> THEN {"tree", "completion"} ELSE {"tree"})
    /\ Fresh
    /\ run = 1
    /\ first_out = <<>>
    /\ file = NoFile
    /\ responsibility = <<>>

\* what no step of a run changes
Fixed == UNCHANGED <<command, root, fs, run, first_out, file, responsibility>>

\* Path::canonicalize succeeds exactly when the path exists
canonicalize_ok == root \in DOMAIN fs

\* lines 41-46: the completion mode writes the script and returns
Completion ==
    /\ pc = "start"
    /\ command = "completion"
    /\ script' = TRUE
    /\ exit_code' = 0
    /\ pc' = "done"
    /\ UNCHANGED <<entries, stack, frames, prefix, out, err>>
    /\ Fixed

\* lines 48-55: canonicalize the path, or report the error and exit(1)
Canonicalize ==
    /\ pc = "start"
    /\ command = "tree"
    /\ IF canonicalize_ok
       THEN /\ pc' = "collect"
            /\ UNCHANGED <<exit_code, err>>
       ELSE /\ pc' = "done"
            /\ exit_code' = 1
            /\ err' = TRUE
    /\ UNCHANGED <<entries, stack, frames, prefix, out, script>>
    /\ Fixed

\* lines 61-67: the map gets the key of the target; the walk starts at it
collect_entries_start ==
    /\ pc = "collect"
    /\ entries' = (root :> <<>>)
    /\ stack' = << {root} >>
    /\ pc' = "walk"
    /\ UNCHANGED <<frames, prefix, out, script, exit_code, err>>
    /\ Fixed

\* the walk leaves the directories it has finished
RECURSIVE PopFinished(_)
PopFinished(st) ==
    IF st # <<>> /\ st[Len(st)] = {}
    THEN PopFinished(SubSeq(st, 1, Len(st) - 1))
    ELSE st

\* Push without or_default(): an entry whose parent is no key yet is lost
Push_no_default(m, k, e) ==
    IF k \in DOMAIN m
    THEN [m EXCEPT ![k] = Append(@, e)]
    ELSE m

\* entries.entry(k).or_default().push(e) (line 74)
Push(m, k, e) ==
    IF k \in DOMAIN m
    THEN [m EXCEPT ![k] = Append(@, e)]
    ELSE m @@ (k :> <<e>>)

\* what the walk opens after yielding e: the listing of a readable
\* directory; read_dir on an unreadable one fails, and the Err item is
\* dropped by filter_map(Result::ok) (line 70)
Opened(e) == IF fs[e] = "dir" THEN << ChildrenOf(fs, e) >> ELSE <<>>

\* lines 67-75, one turn of the loop: the walk takes the next entry of the
\* directory it is in, in whatever order read_dir gives; filter_entry
\* drops a hidden one with all below it; any other is pushed to the Vec of
\* its parent, and parent().unwrap() panics when there is none
walk_next ==
    /\ pc = "walk"
    /\ stack # <<>>
    /\ \E e \in stack[Len(stack)] :
         LET rest == [stack EXCEPT ![Len(stack)] = @ \ {e}]
         IN IF is_hidden(e)
            THEN /\ stack' = PopFinished(rest)
                 /\ UNCHANGED <<entries, pc, exit_code, err>>
            ELSE IF ~HasParent(e)
            THEN /\ pc' = "done"
                 /\ exit_code' = 101
                 /\ err' = TRUE
                 /\ UNCHANGED <<entries, stack>>
            ELSE /\ entries' = Push(entries, parent(e), e)
                 /\ stack' = PopFinished(rest \o Opened(e))
                 /\ UNCHANGED <<pc, exit_code, err>>
    /\ UNCHANGED <<frames, prefix, out, script>>
    /\ Fixed

\* lines 77-92 and 58: the walk is over; every Vec is sorted, the map is
\* returned and main calls print_tree on the target
sort_entries ==
    /\ pc = "walk"
    /\ stack = <<>>
    /\ entries' = [k \in DOMAIN entries |-> sort_by(fs, entries[k])]
    /\ frames' = << [path |-> root, i |-> 1] >>
    /\ pc' = "print"
    /\ UNCHANGED <<stack, prefix, out, script, exit_code, err>>
    /\ Fixed

\* entries.get(path) (line 96): the children, none when the key is absent
children(path) == IF path \in DOMAIN entries THEN entries[path] ELSE <<>>

\* the four-character units of lines 104, 106, 110 and 112; the box-drawing
\* characters are written in ASCII: | for the vertical bar, |-- for the tee
\* and +-- for the elbow
Blank == "    "
Bar == "|   "
Elbow == "+-- "
Tee == "|-- "

\* line_prefix with the branches of line 103 exchanged
line_prefix_swapped(pre, is_last) ==
    [k \in 1..Len(pre) |-> IF pre[k] THEN Bar ELSE Blank]
        \o << IF is_last THEN Elbow ELSE Tee >>

\* lines 101-113: the prefix of a line
line_prefix(pre, is_last) ==
    [k \in 1..Len(pre) |-> IF pre[k] THEN Blank ELSE Bar]
        \o << IF is_last THEN Elbow ELSE Tee >>

\* lines 115-123: the line of entry e
line_of(e, pre, is_last) ==
    IF path_is_dir(fs, e)
    THEN [entry |-> e, prefix |-> line_prefix(pre, is_last),
          file_name |-> file_name(e), dir |-> TRUE, responsibility |-> <<>>]
    ELSE [entry |-> e, prefix |-> line_prefix(pre, is_last),
          file_name |-> file_name(e), dir |-> FALSE,
          responsibility |-> get_responsibility(FileAt(e))]

\* print_tree_next with the call for a directory put off until the calls
\* in progress have returned, instead of made at once
print_tree_next_deferred ==
    /\ pc = "print"
    /\ frames # <<>>
    /\ LET top == frames[Len(frames)]
           count == Len(children(top.path))
       IN /\ top.i <= count
          /\ LET e == children(top.path)[top.i]
                 is_last == top.i = count
                 here == [frames EXCEPT ![Len(frames)].i = @ + 1]
             IN /\ out' = Append(out, line_of(e, prefix, is_last))
                /\ IF path_is_dir(fs, e)
                   THEN /\ prefix' = Append(prefix, is_last)
                        /\ frames' = << [path |-> e, i |-> 1] >> \o here
                   ELSE /\ prefix' = prefix
                        /\ frames' = here
    /\ UNCHANGED <<pc, entries, stack, script, exit_code, err>>
    /\ Fixed

\* lines 98-124, one turn of the loop of the innermost call: print the
\* line of the next child; for a directory push is_last and call
\* print_tree on it
print_tree_next ==
    /\ pc = "print"
    /\ frames # <<>>
    /\ LET top == frames[Len(frames)]
           count == Len(children(top.path))
       IN /\ top.i <= count
          /\ LET e == children(top.path)[top.i]
                 is_last == top.i = count
                 here == [frames EXCEPT ![Len(frames)].i = @ + 1]
             IN /\ out' = Append(out, line_of(e, prefix, is_last))
                /\ IF path_is_dir(fs, e)
                   THEN /\ prefix' = Append(prefix, is_last)
                        /\ frames' = Append(here, [path |-> e, i |-> 1])
                   ELSE /\ prefix' = prefix
                        /\ frames' = here
    /\ UNCHANGED <<pc, entries, stack, script, exit_code, err>>
    /\ Fixed

\* the innermost call of print_tree returns: its loop is over, or the map
\* has no key for its path; the caller pops the prefix (line 119), and
\* main returns when the outermost call does
print_tree_return ==
    /\ pc = "print"
    /\ frames # <<>>
    /\ frames[Len(frames)].i > Len(children(frames[Len(frames)].path))
    /\ frames' = SubSeq(frames, 1, Len(frames) - 1)
    /\ IF Len(frames) > 1
       THEN /\ prefix' = SubSeq(prefix, 1, Len(prefix) - 1)
            /\ UNCHANGED <<pc, exit_code>>
       ELSE /\ prefix' = prefix
            /\ pc' = "done"
            /\ exit_code' = 0
    /\ UNCHANGED <<entries, stack, out, script, err>>
    /\ Fixed

Next ==
    \/ Completion
    \/ Canonicalize
    \/ collect_entries_start
    \/ walk_next
    \/ sort_entries
    \/ print_tree_next
    \/ print_tree_return

Spec == Init /\ [][Next]_vars

(***************************************************************************)
(* Two runs of the tool on the same filesystem.                            *)
(***************************************************************************)
\* the tool is started again after a run that printed a tree; the walk of
\* the second run is free to take the entries in another order
Rerun ==
    /\ pc = "done"
    /\ command = "tree"
    /\ exit_code = 0
    /\ run = 1
    /\ run' = 2
    /\ first_out' = out
    /\ pc' = "start"
    /\ entries' = <<>>
    /\ out' = <<>>
    /\ exit_code' = -1
    /\ UNCHANGED <<command, root, fs, stack, frames, prefix, script, err, file, responsibility>>

NextTwice == Next \/ Rerun

SpecTwice == Init /\ [][NextTwice]_vars

(***************************************************************************)
(* get_responsibility on its own, on every file of Files(MaxLines).        *)
(***************************************************************************)
InitResp ==
    /\ command = "tree"
    /\ root = <<>>
    /\ fs = <<>>
    /\ pc = "call"
    /\ entries = <<>>
    /\ stack = <<>>
    /\ frames = <<>>
    /\ prefix = <<>>
    /\ out = <<>>
    /\ script = FALSE
    /\ exit_code = -1
    /\ err = FALSE
    /\ run = 1
    /\ first_out = <<>>
    /\ file \in Files(MaxLines)
    /\ responsibility = <<>>

\* lines 136-155: one call of get_responsibility
get_responsibility_call ==
    /\ pc = "call"
    /\ responsibility' = get_responsibility(file)
    /\ pc' = "returned"
    /\ UNCHANGED <<command, root, fs, entries, stack, frames, prefix, out, script,
                   exit_code, err, run, first_out, file>>

NextResp == get_responsibility_call

SpecResp == InitResp /\ [][NextResp]_vars

(***************************************************************************)
(* What the properties below speak of, stated on the filesystem and on the *)
(* printed lines rather than through the operators of the program.         *)
(***************************************************************************)
\* a file name that starts with the hidden marker
StartsWithDot(n) == n # <<>> /\ n[1] = "."

\* the entries below the target reached through names none of which starts
\* with a dot (every entry of fs lies in a readable directory)
Shown ==
    {p \in DOMAIN fs : p # root /\ \A k \in (Len(root) + 1)..Len(p) : ~StartsWithDot(p[k])}

\* the entries the walk yields: the target itself and, below it, the shown
\* ones; none when the name of the target is hidden
Yielded ==
    IF root \notin DOMAIN fs \/ (root # <<>> /\ StartsWithDot(root[Len(root)]))
    THEN {}
    ELSE {root} \cup Shown

\* the indexes of the printed lines that name entry p
LinesOf(p) == {i \in 1..Len(out) : out[i].entry = p}

\* collect_entries has returned its map
Collected == pc = "print" \/ (pc = "done" /\ command = "tree" /\ exit_code = 0)

\* what the walk calls a directory: a directory, not a link to one
IsDirectoryEntry(e) == fs[e] \in {"dir", "udir"}

\* e is the last entry of its sibling list in the map
IsLastChild(e) ==
    /\ parent(e) \in DOMAIN entries
    /\ entries[parent(e)] # <<>>
    /\ entries[parent(e)][Len(entries[parent(e)])] = e

\* the ancestor-or-self of p at depth k below the target, the children of
\* the target being at depth 0
AtDepth(p, k) == SubSeq(p, 1, Len(root) + k + 1)

\* the depth of p below the target
DepthOf(p) == Len(p) - Len(root) - 1

\* a is a proper ancestor of p
IsAncestor(a, p) == Len(a) < Len(p) /\ SubSeq(p, 1, Len(a)) = a

\* the code point of a character with its case folded
FoldedCode(c) ==
    CASE c \in {"A", "a"} -> 97
      [] c \in {"B", "b"} -> 98
      [] c = "." -> 46
      [] c = "/" -> 47
      [] c = "h" -> 104
      [] OTHER -> 255

\* s is at most t in the lexicographic order of the case-folded names
RECURSIVE LeqIgnoringCase(_, _)
LeqIgnoringCase(s, t) ==
    IF s = <<>> THEN TRUE
    ELSE IF t = <<>> THEN FALSE
    ELSE IF FoldedCode(Head(s)) < FoldedCode(Head(t)) THEN TRUE
    ELSE IF FoldedCode(Head(s)) > FoldedCode(Head(t)) THEN FALSE
    ELSE LeqIgnoringCase(Tail(s), Tail(t))

\* the bytes of the printed lines, without the entry each line stands for
Printed(o) ==
    [i \in 1..Len(o) |->
        o[i].prefix \o o[i].file_name
            \o (IF o[i].dir THEN <<>> ELSE <<" - ">> \o o[i].responsibility)]

\* the path argument resolves to an existing directory
TargetIsDirectory == root \in DOMAIN fs /\ fs[root] \in {"dir", "udir"}

\* a line that consists of whitespace only
IsBlankLine(l) == \A i \in 1..Len(l) : l[i] = " "

\* what the first non-blank line of the file alone decides
DecidedByFirstLine(f) ==
    LET nonblank == {i \in 1..Len(f.lines) : ~IsBlankLine(f.lines[i])}
    IN IF ~f.open \/ nonblank = {} THEN NoResponsibility
       ELSE LET first == CHOOSE i \in nonblank : \A j \in nonblank : i <= j
                t == trim(f.lines[first])
            IN IF starts_with(t, <<"/", "/">>) \/ starts_with(t, <<"#">>)
               THEN trim_start_matches(t)
               ELSE NoResponsibility

(***************************************************************************)
(* The properties.                                                         *)
(***************************************************************************)

\* C1: when a run has printed its tree, the printed lines name exactly the
\* entries below the target reached through names none of which starts with
\* a dot, each on exactly one line, whatever the name of the target is.
C1_PrintsExactlyShownEntries ==
    (command = "tree" /\ pc = "done" /\ exit_code = 0) =>
        /\ \A p \in Shown : Cardinality(LinesOf(p)) = 1
        /\ \A i \in 1..Len(out) : out[i].entry \in Shown

\* C2: after collect_entries has returned, in every value of the map the
\* directory entries precede the other entries, and within the directories
\* and within the others the names ascend under case-insensitive comparison.
C2_GroupsSorted ==
    Collected =>
        \A k \in DOMAIN entries :
            \A i, j \in 1..Len(entries[k]) :
                i < j =>
                    LET a == entries[k][i]
                        b == entries[k][j]
                    IN /\ IsDirectoryEntry(b) => IsDirectoryEntry(a)
                       /\ IsDirectoryEntry(a) = IsDirectoryEntry(b)
                            => LeqIgnoringCase(file_name(a), file_name(b))

\* C2 witness: the map is returned with a group of three that holds a
\* directory, a file, and the two names whose order depends on the case.
C2_Witness ==
    /\ pc = "print"
    /\ \E k \in DOMAIN entries :
        /\ Len(entries[k]) = 3
        /\ \E i, j \in 1..3 : IsDirectoryEntry(entries[k][i]) /\ ~IsDirectoryEntry(entries[k][j])
        /\ \E i, j \in 1..3 : file_name(entries[k][i]) = <<"a">> /\ file_name(entries[k][j]) = <<"B">>

\* C3: a second run on the same filesystem prints the same bytes as the
\* first, whatever the order in which each walk yields the siblings.
C3_SecondRunPrintsTheSame ==
    (run = 2 /\ pc = "done") => Printed(out) = Printed(first_out)

\* C4: when the path argument does not resolve to an existing directory,
\* main writes an error, exits non-zero and prints no line; exit status 0
\* is reached only when the target is an existing directory.
C4_FailsUnlessDirectory ==
    (command = "tree" /\ pc = "done") =>
        /\ ~TargetIsDirectory => (err /\ exit_code # 0 /\ out = <<>>)
        /\ exit_code = 0 => TargetIsDirectory

\* C5: the result of get_responsibility is decided by the first non-blank
\* line of the file alone.
C5_DecidedByFirstNonBlankLine ==
    pc = "returned" => responsibility = DecidedByFirstLine(file)

\* C6: every printed line of an entry at depth d starts with d units and a
\* connector: unit k is blank if the ancestor at depth k is the last child
\* of its parent and a bar otherwise, the connector is the elbow if the
\* entry is the last child and the tee otherwise; and while print_tree runs
\* for a directory the prefix stack holds the is-last flags of the
\* ancestors-or-self of that directory below the target, so it is on return
\* what it was on entry.
C6_PrefixesFollowAncestors ==
    /\ \A i \in 1..Len(out) :
        LET e == out[i].entry
            d == DepthOf(e)
        IN /\ Len(out[i].prefix) = d + 1
           /\ \A k \in 0..(d - 1) :
                out[i].prefix[k + 1] = (IF IsLastChild(AtDepth(e, k)) THEN Blank ELSE Bar)
           /\ out[i].prefix[d + 1] = (IF IsLastChild(e) THEN Elbow ELSE Tee)
    /\ (pc = "print" /\ frames # <<>>) =>
        LET here == frames[Len(frames)].path
        IN /\ Len(prefix) = DepthOf(here) + 1
           /\ \A k \in 0..DepthOf(here) : prefix[k + 1] = IsLastChild(AtDepth(here, k))

\* C6 witness: a line was printed for an entry at depth 1 whose parent is
\* not the last child of the target, and print_tree has returned.
C6_Witness ==
    /\ pc = "done"
    /\ \E i \in 1..Len(out) : Len(out[i].prefix) = 2 /\ out[i].prefix[1] = Bar

\* C7: after collect_entries has returned, the target and every directory
\* the walk yielded is a key of the map, with an empty value when it has no
\* shown child.
C7_EveryDirectoryIsAKey ==
    Collected =>
        \A d \in {root} \cup {p \in Yielded : IsDirectoryEntry(p)} :
            /\ d \in DOMAIN entries
            /\ {c \in Shown : parent(c) = d} = {} => entries[d] = <<>>

\* C7 as amended: after collect_entries has returned, the keys of the map
\* are the target and the parent of every entry the walk yielded, and every
\* value holds the yielded entries of its directory, once each.
C7_KeysAreTargetAndParents ==
    Collected =>
        /\ DOMAIN entries = {root} \cup {parent(p) : p \in Yielded}
        /\ \A k \in DOMAIN entries :
            LET inside == {p \in Yielded : p # <<>> /\ parent(p) = k}
            IN /\ {entries[k][i] : i \in 1..Len(entries[k])} = inside
               /\ Len(entries[k]) = Cardinality(inside)

\* C7 witness: the map is returned without a key for a directory the walk
\* yielded, and with the key of the parent of the target.
C7_Witness ==
    /\ pc = "print"
    /\ parent(root) \in DOMAIN entries
    /\ \E d \in Yielded : d # root /\ fs[d] = "dir" /\ d \notin DOMAIN entries

\* C8: once the path has been canonicalized the run never aborts: it ends
\* with status 0, every shown entry is printed, and a file that cannot be
\* opened gets the fallback description.
C8_NeverAbortsOnceCanonicalized ==
    (command = "tree" /\ canonicalize_ok) =>
        /\ exit_code \in {-1, 0}
        /\ pc = "done" =>
            /\ \A p \in Shown : LinesOf(p) # {}
            /\ \A i \in 1..Len(out) :
                (~out[i].dir /\ ~FileAt(out[i].entry).open)
                    => out[i].responsibility = NoResponsibility

\* C9: a line is a directory line exactly when collect_entries ordered its
\* entry as a directory, so among the lines of one sibling group every
\* directory line precedes every file line.
C9_DirectoryLinesFirst ==
    /\ \A i \in 1..Len(out) : out[i].dir = IsDirectoryEntry(out[i].entry)
    /\ \A i, j \in 1..Len(out) :
        (i < j /\ parent(out[i].entry) = parent(out[j].entry) /\ out[j].dir)
            => out[i].dir

\* what C10 says of every state: nothing is printed before collect_entries
\* has returned, the line of a directory precedes the lines of the entries
\* below it, and the lines below a directory are contiguous
PreOrder ==
    /\ pc \in {"start", "collect", "walk"} => out = <<>>
    /\ \A j \in 1..Len(out) :
        \/ parent(out[j].entry) = root
        \/ \E i \in 1..(j - 1) : out[i].entry = parent(out[j].entry)
    /\ \A i, j, k \in 1..Len(out) :
        (i < k /\ k < j /\ IsAncestor(out[i].entry, out[j].entry))
            => IsAncestor(out[i].entry, out[k].entry)

\* a bound on the steps print_tree has left: two for every entry that is
\* still to be printed (its line, and the return of the call made for it),
\* and one for every call in progress
StepsLeft == 2 * (Cardinality(Yielded \ {root}) - Len(out)) + Len(frames)

\* C10: the output is depth-first pre-order and is produced only after
\* collect_entries has returned, and print_tree returns after finitely many
\* steps: while it runs it can take a step, and every step lowers StepsLeft,
\* which is never negative.
C10_PreOrderAndTermination ==
    /\ []PreOrder
    /\ [](pc = "print" => (StepsLeft >= 0 /\ ENABLED (print_tree_next \/ print_tree_return)))
    /\ [][pc = "print" => StepsLeft' < StepsLeft]_vars

\* C10 witness: a directory line, then the line of an entry inside it, then
\* the line of the next sibling of the directory; print_tree has returned.
C10_Witness ==
    /\ pc = "done"
    /\ \E i \in 1..(Len(out) - 2) :
        /\ out[i].dir
        /\ parent(out[i + 1].entry) = out[i].entry
        /\ parent(out[i + 2].entry) = parent(out[i].entry)

====
